---- MODULE Spec2Model ----
(***************************************************************************)
(* A model of sniffnet's DataInfo (src/networking/types/data_info.rs): the *)
(* directional packet/byte counters of a traffic record, the timestamp of  *)
(* its latest occurrence, its mutators (add_packet, add_packets, refresh), *)
(* its constructors and its comparator.                                    *)
(*                                                                         *)
(* Counters are u128 in the source.  The model keeps the fixed width and   *)
(* scales it down: a counter ranges over 0..CounterMax, CounterMax standing*)
(* for u128::MAX.  A `+` / `+=` whose mathematical result exceeds          *)
(* CounterMax panics when the crate is built with overflow checks (the     *)
(* debug profile) and wraps modulo CounterMax + 1 otherwise (the release   *)
(* profile); the profile is fixed per behaviour by overflow_checks.        *)
(*                                                                         *)
(* Instant::now() reads a monotonic clock, modelled by the variable now,   *)
(* which Tick advances; two reads without a Tick in between are equal.     *)
(***************************************************************************)
EXTENDS Integers, Sequences, FiniteSets, TLC

\* ---------------------------------------------------------------- bounds

\* The largest value of a counter: stands for u128::MAX.
CounterMax == 2
\* The clock readings are 0..MaxClock.
MaxClock == 2
\* The number of calls a ledgered record takes (SpecLedger).
MaxCalls == 3

Modulus == CounterMax + 1

\* The amounts passed to the mutators and constructors: nothing, one, and the
\* largest value of the type.
Amounts == {0, 1, CounterMax}

\* The counters of a record handed to refresh.
DeltaAmounts == {0, 1}

\* The counters of the records handed to compare: the totals range over
\* 0, 1, CounterMax and CounterMax + 1 (an overflow).
CmpIncoming == {0, 1}
CmpOutgoing == {0, CounterMax}

TrafficDirection == {"Incoming", "Outgoing"}
ChartType == {"Packets", "Bytes"}
SortType == {"Ascending", "Descending", "Neutral"}

VARIABLES
    now,              \* the monotonic clock Instant::now() reads
    overflow_checks,  \* the build: TRUE panics on overflow, FALSE wraps
    panicked,         \* an arithmetic overflow panicked; the thread unwinds
    self,             \* the record the mutators act on
    last,             \* history: the last call on self and its arguments
    ledger,           \* history: the exact amounts the calls on self added
    recs,             \* the records handed to compare
    result            \* the outcomes of the compare calls

vars == <<now, overflow_checks, panicked, self, last, ledger, recs, result>>

\* ------------------------------------------------------------ the record

\* struct DataInfo
DataInfo(ip, op, ib, ob, fi) ==
    [incoming_packets |-> ip, outgoing_packets |-> op,
     incoming_bytes |-> ib, outgoing_bytes |-> ob, final_instant |-> fi]

\* impl Default for DataInfo, with `instant` the reading of Instant::now()
Default(instant) == DataInfo(0, 0, 0, 0, instant)

\* u128 `+`: the value, or a panic under overflow checks, or the wrapped value
Add(x, y) ==
    IF x + y <= CounterMax THEN [val |-> x + y, ok |-> TRUE]
    ELSE IF overflow_checks THEN [val |-> x, ok |-> FALSE]
    ELSE [val |-> (x + y) % Modulus, ok |-> TRUE]

\* One statement `self.field += amount` of a method body; st is the record so
\* far and whether the body is still running (no earlier statement panicked).
AddAssign(st, field, amount) ==
    IF ~st.ok THEN st
    ELSE LET s == Add(st.rec[field], amount)
         IN  [rec |-> [st.rec EXCEPT ![field] = s.val], ok |-> s.ok]

Running(rec) == [rec |-> rec, ok |-> TRUE]

\* The last statement of add_packet and refresh: self.final_instant = instant
SetInstant(st, instant) ==
    IF ~st.ok THEN st
    ELSE [rec |-> [st.rec EXCEPT !.final_instant = instant], ok |-> TRUE]

tot_packets(rec) == Add(rec.incoming_packets, rec.outgoing_packets)

tot_bytes(rec) == Add(rec.incoming_bytes, rec.outgoing_bytes)

tot_data(rec, chart_type) ==
    IF chart_type = "Packets" THEN tot_packets(rec) ELSE tot_bytes(rec)

\* add_packet without its last statement: the timestamp is left as it was
add_packet_stale(rec, bytes, traffic_direction, instant) ==
    IF traffic_direction = "Outgoing"
    THEN AddAssign(AddAssign(Running(rec), "outgoing_packets", 1),
                   "outgoing_bytes", bytes)
    ELSE AddAssign(AddAssign(Running(rec), "incoming_packets", 1),
                   "incoming_bytes", bytes)

add_packet(rec, bytes, traffic_direction, instant) ==
    SetInstant(
        IF traffic_direction = "Outgoing"
        THEN AddAssign(AddAssign(Running(rec), "outgoing_packets", 1),
                       "outgoing_bytes", bytes)
        ELSE AddAssign(AddAssign(Running(rec), "incoming_packets", 1),
                       "incoming_bytes", bytes),
        instant)

\* add_packets refreshing the timestamp as add_packet does
add_packets_stamped(rec, packets, bytes, traffic_direction) ==
    SetInstant(
        IF traffic_direction = "Outgoing"
        THEN AddAssign(AddAssign(Running(rec), "outgoing_packets", packets),
                       "outgoing_bytes", bytes)
        ELSE AddAssign(AddAssign(Running(rec), "incoming_packets", packets),
                       "incoming_bytes", bytes),
        now)

add_packets(rec, packets, bytes, traffic_direction) ==
    IF traffic_direction = "Outgoing"
    THEN AddAssign(AddAssign(Running(rec), "outgoing_packets", packets),
                   "outgoing_bytes", bytes)
    ELSE AddAssign(AddAssign(Running(rec), "incoming_packets", packets),
                   "incoming_bytes", bytes)

new_with_first_packet(bytes, traffic_direction, instant) ==
    IF traffic_direction = "Outgoing"
    THEN DataInfo(0, 1, 0, bytes, instant)
    ELSE DataInfo(1, 0, bytes, 0, instant)

refresh(rec, rhs) ==
    SetInstant(
        AddAssign(AddAssign(AddAssign(AddAssign(Running(rec),
            "incoming_packets", rhs.incoming_packets),
            "outgoing_packets", rhs.outgoing_packets),
            "incoming_bytes", rhs.incoming_bytes),
            "outgoing_bytes", rhs.outgoing_bytes),
        rhs.final_instant)

\* Ord::cmp on u128 and on Instant
Cmp(x, y) == IF x < y THEN "Less" ELSE IF x = y THEN "Equal" ELSE "Greater"

\* self.tot_x().cmp(&other.tot_x()): both totals are computed first, and either
\* may panic
CmpTotals(x, y) == IF x.ok /\ y.ok THEN Cmp(x.val, y.val) ELSE "Panic"

\* compare with the Bytes/Descending arm comparing other's packets to self's bytes
compare_mixed(rec, other, sort_type, chart_type) ==
    IF chart_type = "Packets"
    THEN CASE sort_type = "Ascending" -> CmpTotals(tot_packets(rec), tot_packets(other))
           [] sort_type = "Descending" -> CmpTotals(tot_packets(other), tot_packets(rec))
           [] OTHER -> Cmp(other.final_instant, rec.final_instant)
    ELSE CASE sort_type = "Ascending" -> CmpTotals(tot_bytes(rec), tot_bytes(other))
           [] sort_type = "Descending" -> CmpTotals(tot_packets(other), tot_bytes(rec))
           [] OTHER -> Cmp(other.final_instant, rec.final_instant)

\* compare with the Descending arms not swapping their operands
compare_unswapped(rec, other, sort_type, chart_type) ==
    IF chart_type = "Packets"
    THEN CASE sort_type = "Ascending" -> CmpTotals(tot_packets(rec), tot_packets(other))
           [] sort_type = "Descending" -> CmpTotals(tot_packets(rec), tot_packets(other))
           [] OTHER -> Cmp(other.final_instant, rec.final_instant)
    ELSE CASE sort_type = "Ascending" -> CmpTotals(tot_bytes(rec), tot_bytes(other))
           [] sort_type = "Descending" -> CmpTotals(tot_bytes(rec), tot_bytes(other))
           [] OTHER -> Cmp(other.final_instant, rec.final_instant)

\* compare with the Neutral arm of Bytes falling back to the magnitude
compare_neutral_magnitude(rec, other, sort_type, chart_type) ==
    IF chart_type = "Packets"
    THEN CASE sort_type = "Ascending" -> CmpTotals(tot_packets(rec), tot_packets(other))
           [] sort_type = "Descending" -> CmpTotals(tot_packets(other), tot_packets(rec))
           [] OTHER -> Cmp(other.final_instant, rec.final_instant)
    ELSE CASE sort_type = "Ascending" -> CmpTotals(tot_bytes(rec), tot_bytes(other))
           [] sort_type = "Descending" -> CmpTotals(tot_bytes(other), tot_bytes(rec))
           [] OTHER -> CmpTotals(tot_bytes(other), tot_bytes(rec))

compare(rec, other, sort_type, chart_type) ==
    IF chart_type = "Packets"
    THEN CASE sort_type = "Ascending" -> CmpTotals(tot_packets(rec), tot_packets(other))
           [] sort_type = "Descending" -> CmpTotals(tot_packets(other), tot_packets(rec))
           [] OTHER -> Cmp(other.final_instant, rec.final_instant)
    ELSE CASE sort_type = "Ascending" -> CmpTotals(tot_bytes(rec), tot_bytes(other))
           [] sort_type = "Descending" -> CmpTotals(tot_bytes(other), tot_bytes(rec))
           [] OTHER -> Cmp(other.final_instant, rec.final_instant)

\* --------------------------------------------------- the record's lifetime

NoCall == [op |-> "none", packets |-> 0, bytes |-> 0, dir |-> "Incoming",
           rhs |-> Default(0)]

NoLedger == [incoming_packets |-> 0, outgoing_packets |-> 0,
             incoming_bytes |-> 0, outgoing_bytes |-> 0,
             calls |-> 0, adds |-> 0, merges |-> 0, merged_instant |-> 0]

NoRecs == <<>>
NoResult == [chart |-> "none", ord |-> <<>>]

\* A record built under the same clock and handed to refresh by value.
DeltaRecords ==
    {DataInfo(ip, op, ib, ob, fi) :
        ip \in DeltaAmounts, op \in DeltaAmounts, ib \in DeltaAmounts,
        ob \in DeltaAmounts, fi \in 0..now}

Init ==
    /\ now = 0
    /\ overflow_checks \in BOOLEAN
    /\ panicked = FALSE
    /\ self = Default(0)
    /\ last = NoCall
    /\ ledger = NoLedger
    /\ recs = NoRecs
    /\ result = NoResult

\* The monotonic clock advances.
Tick ==
    /\ now < MaxClock
    /\ now' = now + 1
    /\ UNCHANGED <<overflow_checks, panicked, self, last, ledger, recs, result>>

\* The method's outcome st becomes the record; a panic ends the behaviour.
Becomes(st) ==
    /\ self' = st.rec
    /\ panicked' = ~st.ok

\* The owner replaces the record by DataInfo::default().
NewDefault ==
    /\ ~panicked
    /\ self' = Default(now)
    /\ last' = [NoCall EXCEPT !.op = "default"]
    /\ UNCHANGED <<now, overflow_checks, panicked, ledger, recs, result>>

\* The owner replaces the record by DataInfo::new_with_first_packet(bytes, d).
NewWithFirstPacketCall(bytes, d) ==
    /\ ~panicked
    /\ self' = new_with_first_packet(bytes, d, now)
    /\ last' = [NoCall EXCEPT !.op = "new_with_first_packet", !.packets = 1,
                              !.bytes = bytes, !.dir = d]
    /\ UNCHANGED <<now, overflow_checks, panicked, ledger, recs, result>>

NewWithFirstPacket ==
    \E bytes \in Amounts, d \in TrafficDirection : NewWithFirstPacketCall(bytes, d)

\* self.add_packet(bytes, d)
AddPacketCall(bytes, d) ==
    /\ ~panicked
    /\ Becomes(add_packet(self, bytes, d, now))
    /\ last' = [NoCall EXCEPT !.op = "add_packet", !.packets = 1,
                              !.bytes = bytes, !.dir = d]
    /\ UNCHANGED <<now, overflow_checks, ledger, recs, result>>

AddPacket ==
    \E bytes \in Amounts, d \in TrafficDirection : AddPacketCall(bytes, d)

\* self.add_packets(packets, bytes, d)
AddPacketsCall(packets, bytes, d) ==
    /\ ~panicked
    /\ Becomes(add_packets(self, packets, bytes, d))
    /\ last' = [NoCall EXCEPT !.op = "add_packets", !.packets = packets,
                              !.bytes = bytes, !.dir = d]
    /\ UNCHANGED <<now, overflow_checks, ledger, recs, result>>

AddPackets ==
    \E packets \in Amounts, bytes \in Amounts, d \in TrafficDirection :
        AddPacketsCall(packets, bytes, d)

\* self.refresh(rhs)
RefreshCall(rhs) ==
    /\ ~panicked
    /\ Becomes(refresh(self, rhs))
    /\ last' = [NoCall EXCEPT !.op = "refresh", !.rhs = rhs]
    /\ UNCHANGED <<now, overflow_checks, ledger, recs, result>>

Refresh == \E rhs \in DeltaRecords : RefreshCall(rhs)

Next == Tick \/ NewDefault \/ NewWithFirstPacket \/ AddPacket \/ AddPackets \/ Refresh

Spec == Init /\ [][Next]_vars

\* ----------------------------------------------- a record and its ledger
\* A record created by default() takes at most MaxCalls calls; the ledger
\* keeps, as unbounded integers, what the calls' arguments add up to.

Credit(l, packets_field, packets, bytes_field, bytes) ==
    [l EXCEPT ![packets_field] = @ + packets, ![bytes_field] = @ + bytes,
              !.calls = @ + 1, !.adds = @ + 1]

CreditSide(l, packets, bytes, d) ==
    IF d = "Outgoing"
    THEN Credit(l, "outgoing_packets", packets, "outgoing_bytes", bytes)
    ELSE Credit(l, "incoming_packets", packets, "incoming_bytes", bytes)

CreditMerge(l, rhs) ==
    [l EXCEPT !.incoming_packets = @ + rhs.incoming_packets,
              !.outgoing_packets = @ + rhs.outgoing_packets,
              !.incoming_bytes = @ + rhs.incoming_bytes,
              !.outgoing_bytes = @ + rhs.outgoing_bytes,
              !.calls = @ + 1, !.merges = @ + 1,
              !.merged_instant = rhs.final_instant]

LedgerAddPacket ==
    \E bytes \in Amounts, d \in TrafficDirection :
        /\ ~panicked
        /\ ledger.calls < MaxCalls
        /\ Becomes(add_packet(self, bytes, d, now))
        /\ ledger' = CreditSide(ledger, 1, bytes, d)
        /\ UNCHANGED <<now, overflow_checks, last, recs, result>>

LedgerAddPackets ==
    \E packets \in Amounts, bytes \in Amounts, d \in TrafficDirection :
        /\ ~panicked
        /\ ledger.calls < MaxCalls
        /\ Becomes(add_packets(self, packets, bytes, d))
        /\ ledger' = CreditSide(ledger, packets, bytes, d)
        /\ UNCHANGED <<now, overflow_checks, last, recs, result>>

LedgerRefresh ==
    \E rhs \in DeltaRecords :
        /\ ~panicked
        /\ ledger.calls < MaxCalls
        /\ Becomes(refresh(self, rhs))
        /\ ledger' = CreditMerge(ledger, rhs)
        /\ UNCHANGED <<now, overflow_checks, last, recs, result>>

NextLedger == Tick \/ LedgerAddPacket \/ LedgerAddPackets \/ LedgerRefresh

SpecLedger == Init /\ [][NextLedger]_vars

\* ------------------------------------------------------- the comparator
\* Three records built under the same clock; Compare calls compare on every
\* pair of them, for every sort type, under one chart type.  Each entry of
\* result.ord is the outcome of one call: an Ordering, or "Panic".

CmpRecords ==
    {DataInfo(ip, op, ib, ob, fi) :
        ip \in CmpIncoming, op \in CmpOutgoing, ib \in CmpIncoming,
        ob \in CmpOutgoing, fi \in 0..MaxClock}

Operands == 1..3

InitCmp ==
    /\ now = MaxClock
    /\ overflow_checks \in BOOLEAN
    /\ panicked = FALSE
    /\ self = Default(0)
    /\ last = NoCall
    /\ ledger = NoLedger
    /\ recs \in [Operands -> CmpRecords]
    /\ result = NoResult

Compare ==
    \E chart_type \in ChartType :
        /\ result.chart = "none"
        /\ result' = [chart |-> chart_type,
                      ord |-> [s \in SortType |-> [i \in Operands |-> [j \in Operands |->
                                  compare(recs[i], recs[j], s, chart_type)]]]]
        /\ UNCHANGED <<now, overflow_checks, panicked, self, last, ledger, recs>>

NextCmp == Compare

SpecCmp == InitCmp /\ [][NextCmp]_vars

\* ------------------------------------------------------------ properties

PacketsField(d) == IF d = "Outgoing" THEN "outgoing_packets" ELSE "incoming_packets"
BytesField(d) == IF d = "Outgoing" THEN "outgoing_bytes" ELSE "incoming_bytes"
Opposite(d) == IF d = "Outgoing" THEN "Incoming" ELSE "Outgoing"
Counters == {"incoming_packets", "outgoing_packets", "incoming_bytes", "outgoing_bytes"}
Returned(total, value) == total.ok /\ total.val = value

\* Every reading of the clock a record carries is one the clock has shown.
InstantsArePast == self.final_instant <= now

\* C1: a record created by default() that took only add_packet and
\* add_packets calls reports, from tot_packets() and tot_bytes(), exactly the
\* sums of the packet and byte amounts of those calls.
C1_ExactTotals ==
    (~panicked /\ ledger.merges = 0) =>
        /\ tot_packets(self).ok =>
              tot_packets(self).val = ledger.incoming_packets + ledger.outgoing_packets
        /\ tot_bytes(self).ok =>
              tot_bytes(self).val = ledger.incoming_bytes + ledger.outgoing_bytes

\* What a call adding (packets, bytes) on side d does to a record.
SideEffect(pre, post, d, packets, bytes) ==
    /\ post[PacketsField(d)] = pre[PacketsField(d)] + packets
    /\ post[BytesField(d)] = pre[BytesField(d)] + bytes
    /\ post[PacketsField(Opposite(d))] = pre[PacketsField(Opposite(d))]
    /\ post[BytesField(Opposite(d))] = pre[BytesField(Opposite(d))]

\* What the returning calls do to the two sides.
C2Step ==
    /\ \A b \in Amounts, d \in TrafficDirection :
          (AddPacketCall(b, d) /\ ~panicked') => SideEffect(self, self', d, 1, b)
    /\ \A n \in Amounts, b \in Amounts, d \in TrafficDirection :
          (AddPacketsCall(n, b, d) /\ ~panicked') => SideEffect(self, self', d, n, b)
    /\ \A b \in Amounts, d \in TrafficDirection :
          NewWithFirstPacketCall(b, d) => SideEffect(Default(now), self', d, 1, b)

\* C2: a returning add_packet(b, d) / add_packets(n, b, d) raises the packet
\* and byte counters of side d by 1 and b / by n and b and leaves the opposite
\* side as it was; new_with_first_packet(b, d) gives 1 and b on side d and 0
\* and 0 on the opposite side.
C2_DirectionalSplit == [][C2Step]_vars

\* What an add_packet step does to final_instant.
C3Step ==
    (last'.op = "add_packet" /\ AddPacketCall(last'.bytes, last'.dir)) =>
        /\ self'.final_instant >= self.final_instant
        /\ ~panicked' => self'.final_instant = now

\* C3: a returning add_packet leaves final_instant equal to the clock's
\* reading, and no add_packet call leaves it earlier than it was.
C3_AddPacketRefreshesInstant == [][C3Step]_vars

\* An add_packet returned after the clock had advanced.
C3_Witness ==
    /\ last.op = "add_packet"
    /\ ~panicked
    /\ now > 0
    /\ self.final_instant = now

\* Records of every timestamp, to compare with.
Probes == {Default(t) : t \in 0..MaxClock}

\* What an add_packets step does to final_instant.
C4Step ==
    (last'.op = "add_packets"
        /\ AddPacketsCall(last'.packets, last'.bytes, last'.dir)) =>
        /\ self'.final_instant = self.final_instant
        /\ \A r \in Probes, c \in ChartType :
              /\ compare(self', r, "Neutral", c) = compare(self, r, "Neutral", c)
              /\ compare(r, self', "Neutral", c) = compare(r, self, "Neutral", c)

\* C4: add_packets leaves final_instant as it was, so the Neutral comparison
\* of the record with any other record, either way round, is what it was.
C4_AddPacketsKeepsInstant == [][C4Step]_vars

\* An add_packets that added packets returned on a record whose timestamp is
\* older than the clock's reading.
C4_Witness ==
    /\ last.op = "add_packets"
    /\ last.packets > 0
    /\ ~panicked
    /\ self.final_instant < now

\* What a returning refresh step does to the record.
C5Step ==
    \A rhs \in DeltaRecords :
        (RefreshCall(rhs) /\ ~panicked') =>
            /\ \A f \in Counters : self'[f] = self[f] + rhs[f]
            /\ self'.final_instant = rhs.final_instant

\* C5: a returning refresh(rhs) leaves each counter of self at its previous
\* value plus rhs's counter, and final_instant at rhs's final_instant.
C5_RefreshSums == [][C5Step]_vars

\* What a mutator step may do to the counters and the totals.
C6Step ==
    (AddPacket \/ AddPackets \/ Refresh) =>
        /\ ~panicked'
        /\ \A f \in Counters : self'[f] >= self[f]
        /\ tot_packets(self).ok =>
              (tot_packets(self').ok /\ tot_packets(self').val >= tot_packets(self).val)
        /\ tot_bytes(self).ok =>
              (tot_bytes(self').ok /\ tot_bytes(self').val >= tot_bytes(self).val)

\* C6: every add_packet, add_packets and refresh call returns, and leaves no
\* counter and no total smaller than it was.
C6_CountersNeverDecrease == [][C6Step]_vars

\* C7: a record created by default() that took only refresh calls holds, in
\* each counter, the sum of the merged records' counters (whatever the order
\* of the merges), and the final_instant of the record merged last.
C7_MergedSums ==
    (~panicked /\ ledger.adds = 0 /\ ledger.merges > 0) =>
        /\ \A f \in Counters : self[f] = ledger[f]
        /\ self.final_instant = ledger.merged_instant

\* Ordering::reverse, and a call that panicked stays one.
Reverse(o) ==
    CASE o = "Less" -> "Greater" [] o = "Greater" -> "Less" [] OTHER -> o

NotGreater(o) == o \in {"Less", "Equal"}

\* C8: under every sort type and chart type the outcomes of compare form a
\* consistent ordering: a record is Equal to itself, swapping the operands
\* reverses the outcome, and not-Greater is transitive.
C8_ConsistentOrdering ==
    result.chart # "none" =>
        \A s \in SortType :
            LET R == result.ord[s]
            IN  \A i \in Operands, j \in Operands, k \in Operands :
                    /\ R[i][i] \in {"Equal", "Panic"}
                    /\ R[i][j] = Reverse(R[j][i])
                    /\ (NotGreater(R[i][j]) /\ NotGreater(R[j][k])) => NotGreater(R[i][k])

\* Three records strictly ordered by the Descending comparison of bytes, and
\* the other way round by the Neutral one.
C8_Witness ==
    /\ result.chart = "Bytes"
    /\ result.ord["Descending"][1][2] = "Less"
    /\ result.ord["Descending"][2][3] = "Less"
    /\ result.ord["Descending"][1][3] = "Less"
    /\ result.ord["Neutral"][3][2] = "Less"
    /\ result.ord["Neutral"][2][1] = "Less"

\* C9: compare(a, b, Descending, c) is compare(b, a, Ascending, c), Ascending
\* being the comparison of tot_data(c): the record with the smaller total is
\* Greater (sorts after), whatever the timestamps.
C9_DescendingLargerFirst ==
    result.chart # "none" =>
        \A i \in Operands, j \in Operands :
            LET ti == tot_data(recs[i], result.chart)
                tj == tot_data(recs[j], result.chart)
            IN  /\ result.ord["Descending"][i][j] = result.ord["Ascending"][j][i]
                /\ (ti.ok /\ tj.ok) =>
                      /\ result.ord["Ascending"][i][j] = Cmp(ti.val, tj.val)
                      /\ ti.val < tj.val => result.ord["Descending"][i][j] = "Greater"
                      /\ ti.val > tj.val => result.ord["Descending"][i][j] = "Less"
                      /\ ti.val = tj.val => result.ord["Descending"][i][j] = "Equal"

\* Record 1 has fewer bytes and the newer timestamp, and sorts after record 2.
C9_Witness ==
    /\ result.chart = "Bytes"
    /\ Returned(tot_bytes(recs[1]), 1)
    /\ Returned(tot_bytes(recs[2]), CounterMax)
    /\ recs[1].final_instant > recs[2].final_instant
    /\ result.ord["Descending"][1][2] = "Greater"

\* C10: compare(a, b, Neutral, c) is decided by the two timestamps alone: Less
\* when a's is the later, Equal when they are equal, Greater otherwise.
C10_NeutralByRecency ==
    result.chart # "none" =>
        \A i \in Operands, j \in Operands :
            result.ord["Neutral"][i][j] =
                IF recs[i].final_instant > recs[j].final_instant THEN "Less"
                ELSE IF recs[i].final_instant = recs[j].final_instant THEN "Equal"
                ELSE "Greater"

\* Record 1 has fewer bytes and the newer timestamp, and sorts before record 2.
C10_Witness ==
    /\ result.chart = "Bytes"
    /\ Returned(tot_bytes(recs[1]), 1)
    /\ Returned(tot_bytes(recs[2]), CounterMax)
    /\ recs[1].final_instant > recs[2].final_instant
    /\ result.ord["Neutral"][1][2] = "Less"
    /\ result.ord["Neutral"][3][3] = "Equal"

\* ------------------------------------------- the same, short of overflow
\* What the counters do as long as no sum exceeds CounterMax.

FitsAll(pre, amounts) == \A f \in Counters : pre[f] + amounts[f] <= CounterMax

SideAmounts(d, packets, bytes) ==
    [f \in Counters |-> IF f = PacketsField(d) THEN packets
                        ELSE IF f = BytesField(d) THEN bytes ELSE 0]

ExactTotalsWithinRange ==
    (ledger.incoming_packets + ledger.outgoing_packets <= CounterMax
        /\ ledger.incoming_bytes + ledger.outgoing_bytes <= CounterMax) =>
        /\ ~panicked
        /\ \A f \in Counters : self[f] = ledger[f]
        /\ Returned(tot_packets(self), ledger.incoming_packets + ledger.outgoing_packets)
        /\ Returned(tot_bytes(self), ledger.incoming_bytes + ledger.outgoing_bytes)
        /\ (ledger.adds = 0 /\ ledger.merges > 0) =>
              self.final_instant = ledger.merged_instant

WithinRangeStep ==
    /\ (last'.op = "add_packet" /\ AddPacketCall(last'.bytes, last'.dir)
            /\ FitsAll(self, SideAmounts(last'.dir, 1, last'.bytes))) =>
          (~panicked' /\ SideEffect(self, self', last'.dir, 1, last'.bytes))
    /\ (last'.op = "add_packets"
            /\ AddPacketsCall(last'.packets, last'.bytes, last'.dir)
            /\ FitsAll(self, SideAmounts(last'.dir, last'.packets, last'.bytes))) =>
          (~panicked' /\ SideEffect(self, self', last'.dir, last'.packets, last'.bytes))
    /\ (last'.op = "refresh" /\ RefreshCall(last'.rhs) /\ FitsAll(self, last'.rhs)) =>
          /\ ~panicked'
          /\ \A f \in Counters : self'[f] = self[f] + last'.rhs[f]
          /\ self'.final_instant = last'.rhs.final_instant

CountersWithinRange == [][WithinRangeStep]_vars

====
